---- MODULE Spec2Model ----
(***************************************************************************)
(* SQL-Ball: the SQL repair steps and the request pipeline of SQLChain     *)
(* (backend/rag/chain.py), the terminology mapper (backend/rag/football.py)*)
(* and the /execute, /query, /optimize, /health and dashboard handlers     *)
(* (backend/api/*.py, backend/main.py).                                    *)
(*                                                                         *)
(* A SQL text is a sequence of tokens.  A token is a run of characters     *)
(* that every pattern of the code either matches whole or not at all:      *)
(* a keyword, an identifier piece, a literal value, one punctuation        *)
(* character or one whitespace character.  The text is the concatenation   *)
(* of its tokens, so two adjacent word tokens form one longer word (the    *)
(* regex \b sees no boundary between them) and substring tests of the      *)
(* code become sub-sequence tests.                                         *)
(***************************************************************************)
EXTENDS Integers, Sequences, FiniteSets, TLC

\* ------------------------------------------------------------------ tokens

\* Indent is the run of 16 spaces that starts each continuation line of a
\* canned query.
Indent == "                "
Ws == {" ", "\n", Indent}
Quotes == {"'", "\""}
\* "[fence]" stands for the three backquotes of a markdown code fence.
Fence == "[fence]"
NonWord == Ws \cup Quotes \cup {"=", "(", ")", ",", ";", "*", ">", ".", "+", "?", Fence}

IsWs(t) == t \in Ws
IsWord(t) == t \notin NonWord

\* str.upper() on one token (the lower-case spellings the inputs use).
Upper(t) ==
    CASE t = "select" -> "SELECT"
      [] t = "where" -> "WHERE"
      [] t = "and" -> "AND"
      [] t = "season" -> "SEASON"
      [] t = "date" -> "DATE"
      [] t = "finished" -> "FINISHED"
      [] OTHER -> t

UpperSeq(s) == [i \in 1..Len(s) |-> Upper(s[i])]

\* str.lower() on one token (the capitalised spellings the questions use).
Lower(t) ==
    CASE t = "Who" -> "who"
      [] t = "Premier" -> "premier"
      [] t = "League" -> "league"
      [] t = "TABLE" -> "table"
      [] t = "Top" -> "top"
      [] t = "Striker" -> "striker"
      [] t = "THIS" -> "this"
      [] t = "OpenAI" -> "openai"
      [] t = "API" -> "api"
      [] t = "Please" -> "please"
      [] t = "VITE_OPENAI_API_KEY" -> "vite_openai_api_key"
      [] t = "Request" -> "request"
      [] OTHER -> t

LowerSeq(s) == [i \in 1..Len(s) |-> Lower(s[i])]

Min(S) == CHOOSE x \in S : \A y \in S : x <= y
Max(S) == CHOOSE x \in S : \A y \in S : x >= y

\* s[i:] and s[:i] of Python, on 1-based token positions.
From(s, i) == SubSeq(s, i, Len(s))
Upto(s, i) == SubSeq(s, 1, i)

\* sub in s (str.__contains__), and s.index(sub) as a 1-based position.
OccursAt(s, sub, i) == i + Len(sub) - 1 <= Len(s) /\ SubSeq(s, i, i + Len(sub) - 1) = sub
Contains(s, sub) == \E i \in 1..Len(s) : OccursAt(s, sub, i)
IndexOf(s, sub) == Min({i \in 1..Len(s) : OccursAt(s, sub, i)})
EndsWith(s, sub) == Len(sub) <= Len(s) /\ SubSeq(s, Len(s) - Len(sub) + 1, Len(s)) = sub

\* s.count(t) for a one-character token t.
Count(s, t) == Cardinality({i \in 1..Len(s) : s[i] = t})

\* s.replace(old, new): every non-overlapping occurrence, left to right.
\* The recursion is over the occurrences.
RECURSIVE ReplaceFrom(_, _, _, _)
ReplaceFrom(s, old, new, i) ==
    LET at == {j \in i..Len(s) : OccursAt(s, old, j)} IN
    IF at = {} THEN SubSeq(s, i, Len(s))
    ELSE SubSeq(s, i, Min(at) - 1) \o new \o ReplaceFrom(s, old, new, Min(at) + Len(old))

Replace(s, old, new) == ReplaceFrom(s, old, new, 1)

\* str.lstrip(), str.rstrip(), str.strip(): whitespace off the ends.
LStrip(s) ==
    LET keep == {i \in 1..Len(s) : ~IsWs(s[i])} IN
    IF keep = {} THEN <<>> ELSE SubSeq(s, Min(keep), Len(s))

RStrip(s) ==
    LET keep == {i \in 1..Len(s) : ~IsWs(s[i])} IN
    IF keep = {} THEN <<>> ELSE SubSeq(s, 1, Max(keep))

Strip(s) == LStrip(RStrip(s))

\* str.rstrip(';'): semicolons (only) off the right end.
RStripSemi(s) ==
    LET keep == {i \in 1..Len(s) : s[i] # ";"} IN
    IF keep = {} THEN <<>> ELSE SubSeq(s, 1, Max(keep))

\* " ".join(s.split()): ends stripped, every whitespace run one space.  A
\* whitespace token stays, as one space, when it starts a run that has a
\* word before it and a word after it; last is the position of the last
\* token that is not whitespace.
Kept(t) == t # ""

JoinWords(s, last) ==
    SelectSeq([i \in 1..Len(s) |->
                  IF ~IsWs(s[i]) THEN s[i]
                  ELSE IF i > 1 /\ ~IsWs(s[i - 1]) /\ i < last THEN " " ELSE ""], Kept)

SplitJoin(s) == JoinWords(s, Max({0} \cup {i \in 1..Len(s) : ~IsWs(s[i])}))

\* ---------------------------------------------------------------- patterns
\* A pattern is matched left to right by a chain of steps.  Each step takes
\* the position reached so far (0: the match has failed) and gives the
\* position it reaches.

\* First position at or after i that holds no whitespace.
RECURSIVE SkipWs(_, _)
SkipWs(s, i) == IF i <= Len(s) /\ IsWs(s[i]) THEN SkipWs(s, i + 1) ELSE i

\* First position at or after i that holds a character of stop, or Len(s)+1.
RECURSIVE SkipTo(_, _, _)
SkipTo(s, i, stop) == IF i <= Len(s) /\ s[i] \notin stop THEN SkipTo(s, i + 1, stop) ELSE i

\* \b before the word token at i, and after the word token at i.
BoundaryBefore(s, i) == i = 1 \/ ~IsWord(s[i - 1])
BoundaryAfter(s, i) == i = Len(s) \/ ~IsWord(s[i + 1])

\* A literal at p: one of the tokens T, or (IGNORECASE) the keyword k.
Tok(s, p, T) == IF 0 < p /\ p <= Len(s) /\ s[p] \in T THEN p ELSE 0
UTok(s, p, k) == IF 0 < p /\ p <= Len(s) /\ Upper(s[p]) = k THEN p ELSE 0

\* \b before and after the token matched at p.
WordStart(s, p) == IF p > 0 /\ BoundaryBefore(s, p) THEN p ELSE 0
WordEnd(s, p) == IF p > 0 /\ BoundaryAfter(s, p) THEN p ELSE 0

\* After the token matched at p: nothing, \s*, \s+, one literal space.
Next(p) == IF p = 0 THEN 0 ELSE p + 1
Gap(s, p) == IF p = 0 THEN 0 ELSE SkipWs(s, p + 1)
Gap1(s, p) == IF p = 0 \/ SkipWs(s, p + 1) = p + 1 THEN 0 ELSE SkipWs(s, p + 1)
Space1(s, p) == IF p = 0 \/ p + 1 > Len(s) \/ s[p + 1] # " " THEN 0 ELSE p + 2

\* $ at position p (one past the last token): the match ends at the last token.
AtEnd(s, p) == IF p = Len(s) + 1 THEN Len(s) ELSE 0

\* After the opening quote matched at q: [^stop]*stop and [^stop]+stop, giving
\* the position of the closing quote.
Body0(s, q, stop) ==
    IF q = 0 \/ SkipTo(s, q + 1, stop) > Len(s) THEN 0 ELSE SkipTo(s, q + 1, stop)
Body1(s, q, stop) ==
    IF q = 0 \/ SkipTo(s, q + 1, stop) > Len(s) \/ SkipTo(s, q + 1, stop) = q + 1 THEN 0
    ELSE SkipTo(s, q + 1, stop)

\* season\s*=\s*['"][^'"]+['"] (IGNORECASE) starting at i: position of the
\* closing quote, 0 when there is no match at i.
SeasonEnd(s, i) ==
    Body1(s, Tok(s, Gap(s, Tok(s, Gap(s, UTok(s, i, "SEASON")), {"="})), Quotes), Quotes)

\* \bA\s+B\b and \bA B\b (IGNORECASE) for two keywords, at i: position of B.
KwPairEnd(s, i, a, b) == WordEnd(s, UTok(s, Gap1(s, WordStart(s, UTok(s, i, a))), b))
KwSpaceEnd(s, i, a, b) == WordEnd(s, UTok(s, Space1(s, WordStart(s, UTok(s, i, a))), b))

\* \bK\b (IGNORECASE) at i.
KwEnd(s, i, k) == WordEnd(s, WordStart(s, UTok(s, i, k)))

\* \bfinished\s*=\s*d\b (IGNORECASE) at i: position of the digit.
FinishedEnd(s, i, d) ==
    WordEnd(s, Tok(s, Gap(s, Tok(s, Gap(s, WordStart(s, UTok(s, i, "FINISHED"))), {"="})), {d}))

\* The patterns of the code, by name: the last position of the match that
\* starts at i, or 0.
MatchEnd(p, s, i) ==
    CASE p = "season" -> SeasonEnd(s, i)
      [] p = "and_and" -> KwPairEnd(s, i, "AND", "AND")
      [] p = "where_and" -> KwPairEnd(s, i, "WHERE", "AND")
      [] p = "and_end" -> AtEnd(s, Gap1(s, WordStart(s, UTok(s, i, "AND"))))
      [] p = "and_season" -> SeasonEnd(s, Gap1(s, WordStart(s, UTok(s, i, "AND"))))
      [] p = "where" -> KwEnd(s, i, "WHERE")
      [] p = "limit" -> KwEnd(s, i, "LIMIT")
      [] p = "having" -> KwEnd(s, i, "HAVING")
      [] p = "date" -> KwEnd(s, i, "DATE")
      [] p = "group_by" -> KwPairEnd(s, i, "GROUP", "BY")
      [] p = "order_by" -> KwPairEnd(s, i, "ORDER", "BY")
      [] p = "group by" -> KwSpaceEnd(s, i, "GROUP", "BY")
      [] p = "order by" -> KwSpaceEnd(s, i, "ORDER", "BY")
      [] p = "eq_dq" -> Body0(s, Tok(s, Gap(s, Tok(s, i, {"="})), {"\""}), {"\""})
      [] p = "in_dq" ->
            Body0(s, Tok(s, Gap(s, Tok(s, Gap(s, Tok(s, i, {"IN"})), {"("})), {"\""}), {"\""})
      [] p = "comma_dq" ->
            Body0(s, Tok(s, Gap(s, Tok(s, Next(Tok(s, i, {"\""})), {","})), {"\""}), {"\""})
      [] p = "finished_1" -> FinishedEnd(s, i, "1")
      [] p = "finished_0" -> FinishedEnd(s, i, "0")
      [] OTHER -> 0

\* Start of the first match of p at or after i, 0 for none.
NextMatch(p, s, i) == Min({j \in i..Len(s) : MatchEnd(p, s, j) > 0} \cup {Len(s) + 1}) % (Len(s) + 1)

\* re.search(p, s).start() as a 1-based position, 0 for no match.
Search(p, s) == NextMatch(p, s, 1)

\* re.findall / re.finditer: the start positions of the non-overlapping
\* matches of p, the first of them at m.  The recursion is over the matches.
RECURSIVE FindAllAt(_, _, _)
FindAllAt(p, s, m) ==
    IF m = 0 THEN <<>> ELSE <<m>> \o FindAllAt(p, s, NextMatch(p, s, MatchEnd(p, s, m) + 1))

FindAll(p, s) == FindAllAt(p, s, NextMatch(p, s, 1))

\* The one group of a pattern is the text between the last pair of quotes of
\* the match: before the closing quote at e, back to the quote before it.
GroupBefore(s, e) == SubSeq(s, Max({j \in 1..(e - 1) : s[j] \in Quotes}) + 1, e - 1)

\* A replacement template with its \1 filled in.
Expand(repl, group) == Replace(repl, <<"\\1">>, group)

\* re.sub(p, repl, s, count): the first count matches replaced by repl.
\* SubAt continues at i when the next match starts at m.
RECURSIVE SubFrom(_, _, _, _, _)
RECURSIVE SubAt(_, _, _, _, _, _)
SubAt(p, repl, s, i, count, m) ==
    IF count = 0 \/ m = 0 THEN SubSeq(s, i, Len(s))
    ELSE SubSeq(s, i, m - 1) \o Expand(repl, GroupBefore(s, MatchEnd(p, s, m)))
             \o SubFrom(p, repl, s, MatchEnd(p, s, m) + 1, count - 1)

SubFrom(p, repl, s, i, count) == SubAt(p, repl, s, i, count, NextMatch(p, s, i))

Sub(p, repl, s) == SubFrom(p, repl, s, 1, Len(s))
SubFirst(p, repl, s) == SubFrom(p, repl, s, 1, 1)

\* The values ([^'"]+) of the season matches that start at the positions at.
SeasonValues(s, at) == [k \in 1..Len(at) |-> GroupBefore(s, SeasonEnd(s, at[k]))]

\* re.findall(r"season\s*=\s*['\"]([^'\"]+)['\"]", sql, re.IGNORECASE)
SeasonMatches(s) == SeasonValues(s, FindAll("season", s))

Range(f) == {f[k] : k \in DOMAIN f}

\* len(season_matches) > 1 and len(set(season_matches)) > 1
Conflicting(vals) == Len(vals) > 1 /\ Cardinality(Range(vals)) > 1

\* ------------------------------------------------- SQLChain (rag/chain.py)

\* sql.replace("```sql", "").replace("```", "")
RemoveFences(s) == Replace(Replace(s, <<Fence, "sql">>, <<>>), <<Fence>>, <<>>)

\* Truncation repair: unbalanced parentheses with an open SUM(CASE WHEN.
FixTruncation(s) ==
    IF Count(s, "(") # Count(s, ")")
       /\ Contains(s, <<"SUM", "(", "CASE", " ", "WHEN">>)
       /\ ~EndsWith(s, <<"END", ")">>)
    THEN s \o <<" ", "END", ")">>
    ELSE s

\* Incomplete column reference: away_score is the tokens away, _sco, re.
FixTruncatedColumn(s) ==
    IF EndsWith(s, <<"_sco">>) /\ Contains(s, <<"away", "_sco", "re">>)
    THEN Replace(s, <<"away", "_sco">>, <<"away", "_sco", "re">>)
    ELSE s

\* The first season predicate of s: season_pattern.search(sql).group(0),
\* its match starting at m.
FirstSeasonAt(s, m) == SubSeq(s, m, SeasonEnd(s, m))
FirstSeason(s) == FirstSeasonAt(s, Search("season", s))

\* Every season predicate removed, then the AND / WHERE debris tidied.
RemoveSeasons(s) ==
    Sub("and_end", <<>>,
        Strip(Sub("where_and", <<"WHERE">>,
                  Sub("and_and", <<"AND">>,
                      Sub("season", <<>>, s)))))

\* Where a new WHERE clause goes when r has none: before the first of
\* GROUP BY, ORDER BY, LIMIT, else at the end.
InsertPos(r) ==
    Min(({Search(c, r) : c \in {"group by", "order by", "limit"}} \ {0}) \cup {Len(r) + 1})

InsertWhereAt(r, clause, pos) ==
    RStrip(Upto(r, pos - 1)) \o <<" ", "WHERE", " ">> \o clause \o <<" ">> \o From(r, pos)

\* The first season predicate put back into the text r.
Reinsert(r, clause) ==
    IF Contains(UpperSeq(r), <<"WHERE">>)
    THEN SubFirst("where", <<"WHERE", " ">> \o clause \o <<" ", "AND">>, r)
    ELSE InsertWhereAt(r, clause, InsertPos(r))

\* "Fix conflicting WHERE conditions": two or more season predicates with
\* two or more distinct values.
FixConflict(s) ==
    IF Conflicting(SeasonMatches(s)) THEN Reinsert(RemoveSeasons(s), FirstSeason(s)) ELSE s

\* where_match.start() > group_by_match.start(), both matches found.
Misordered(g, w) == g > 0 /\ w > 0 /\ w > g

\* End of the WHERE clause that starts at w: the earliest of ORDER BY, LIMIT,
\* HAVING after it, else the end of the text (a position one past the clause).
WhereEnd(s, w) ==
    Min({m \in {Search("order_by", s), Search("limit", s), Search("having", s)} : m > w}
            \cup {Len(s) + 1})

\* The WHERE clause put in front of the GROUP BY at g of the text without it.
InsertAt(removed, clause, g) ==
    IF g > 0
    THEN RStrip(Upto(removed, g - 1)) \o <<" ">> \o clause \o <<" ">> \o From(removed, g)
    ELSE removed

InsertBeforeGroup(removed, clause) == InsertAt(removed, clause, Search("group_by", removed))

\* The WHERE clause s[w:e] cut out and put in front of GROUP BY.
MoveWhere(s, w, e) ==
    InsertBeforeGroup(RStrip(Upto(s, w - 1)) \o <<" ">> \o LStrip(From(s, e)),
                      Strip(SubSeq(s, w, e - 1)))

MoveWhereAt(s, w) == MoveWhere(s, w, WhereEnd(s, w))

\* "Fix common SQL ordering issues": the first WHERE stands after the first
\* GROUP BY.
FixOrder(s) ==
    IF Contains(UpperSeq(s), <<"GROUP", " ", "BY">>) /\ Contains(UpperSeq(s), <<"WHERE">>)
       /\ Misordered(Search("group_by", s), Search("where", s))
    THEN MoveWhereAt(s, Search("where", s))
    ELSE s

\* text.upper().strip().startswith("SELECT") on the stripped upper text u.
HeadIsSelect(u) == u # <<>> /\ u[1] = "SELECT"
StartsWithSelect(s) == HeadIsSelect(Strip(UpperSeq(s)))

\* Tokens that end in an underscore (a column name cut after its "_").
EndsUnderscore(t) == t \in {"home_"}

\* _validate_sql: TRUE when the text passes the basic checks.
ValidateSql(s) ==
    /\ StartsWithSelect(s)
    /\ Count(s, "(") = Count(s, ")")
    /\ ~(s # <<>> /\ EndsUnderscore(s[Len(s)]))
    /\ ~\E i \in 1..Len(s) :
          /\ EndsUnderscore(s[i])
          /\ UTok(s, Gap1(s, i), "FROM") + UTok(s, Gap1(s, i), "WHERE")
                + UTok(s, Gap1(s, i), "GROUP") + UTok(s, Gap1(s, i), "ORDER") > 0
    /\ ~\E i \in 1..Len(s) : s[i] = "=" /\ SkipWs(s, i + 1) = Len(s) + 1
    /\ ~\E i \in 1..Len(s) : Upper(s[i]) = "AND" /\ SkipWs(s, i + 1) = Len(s) + 1

\* "Ensure semicolon at end".
\* A terminator appended whether or not the text has one.
EnsureSemicolonAlways(s) == Strip(s) \o <<";">>

\* if not sql.strip().endswith(";"): sql = sql.strip() + ";"
EnsureSemicolon(s) == IF ~EndsWith(Strip(s), <<";">>) THEN Strip(s) \o <<";">> ELSE s

\* The text _validate_sql is given inside _clean_sql: the repair steps in
\* the order of the code.
CleanSqlValidated(sql) ==
    FixOrder(FixConflict(FixTruncatedColumn(FixTruncation(SplitJoin(RemoveFences(sql))))))

\* A validation step that withholds a text that failed _validate_sql.
WarnedTextWithheld(s, valid) == IF valid THEN s ELSE <<>>

\* if not self._validate_sql(sql): print(...) -- sql is not assigned.
WarnedText(s, valid) == s

\* _clean_sql from the validation on.
CleanChecked(s) == EnsureSemicolon(WarnedText(s, ValidateSql(s)))

\* _clean_sql.
CleanSql(sql) == CleanChecked(CleanSqlValidated(sql))

SeasonClause(season) == <<"season", " ", "=", " ", "'", season, "'">>

\* if season_matches and requested_season not in season_matches
WrongSeason(vals, requested) == Len(vals) > 0 /\ <<requested>> \notin Range(vals)

\* A correction that rewrites the first season predicate only.
ValidateSeasonUsageFirst(sql, requested) ==
    IF WrongSeason(SeasonMatches(sql), requested)
    THEN SubFirst("season", SeasonClause(requested), sql)
    ELSE sql

\* _validate_season_usage
ValidateSeasonUsage(sql, requested) ==
    IF WrongSeason(SeasonMatches(sql), requested)
    THEN Sub("season", SeasonClause(requested), sql)
    ELSE sql

\* Where _add_season_filter puts a new WHERE clause, on the upper-cased
\* text up: before ORDER BY, else GROUP BY, else LIMIT, else at len(sql) - 1.
\* The text is a result of _clean_sql, whose last character is a token of
\* its own, so len(sql) - 1 is the position of the last token.
FilterPos(up) ==
    IF Contains(up, <<"ORDER", " ", "BY">>) THEN IndexOf(up, <<"ORDER", " ", "BY">>)
    ELSE IF Contains(up, <<"GROUP", " ", "BY">>) THEN IndexOf(up, <<"GROUP", " ", "BY">>)
    ELSE IF Contains(up, <<"LIMIT">>) THEN IndexOf(up, <<"LIMIT">>)
    ELSE Len(up)

\* sql[:pos] + " WHERE season = '...' " + sql[pos:]
FilterAt(sql, season, pos) ==
    Upto(sql, pos - 1) \o <<" ", "WHERE", " ">> \o SeasonClause(season) \o <<" ">> \o From(sql, pos)

\* sql[:where_pos + 5] + " season = '...' AND" + sql[where_pos + 5:]
FilterAfterWhere(sql, season, w) ==
    Upto(sql, w) \o <<" ">> \o SeasonClause(season) \o <<" ", "AND">> \o From(sql, w + 1)

\* _add_season_filter on sql and its upper-cased text up.  The test
\* "season" not in sql_upper looks for a lower-case word in upper-case text.
AddSeasonFilterUp(sql, season, up) ==
    IF Contains(up, <<"WHERE">>)
    THEN IF ~Contains(up, <<"season">>)
         THEN FilterAfterWhere(sql, season, IndexOf(up, <<"WHERE">>))
         ELSE sql
    ELSE FilterAt(sql, season, FilterPos(up))

AddSeasonFilter(sql, season) == AddSeasonFilterUp(sql, season, UpperSeq(sql))

\* if context_hints.get("needs_season") and season not in sql
\* (hints["needs_season"] is always True).
FilterIfMissing(cleaned, season) ==
    IF ~Contains(cleaned, <<season>>) THEN AddSeasonFilter(cleaned, season) ELSE cleaned

\* The repair steps of process_query.
RepairForQuery(raw, season) == ValidateSeasonUsage(FilterIfMissing(CleanSql(raw), season), season)

\* ------------------------------------------- /execute (api/execute.py)

\* request.sql.strip().rstrip(';')
ExecStrip(sql) == RStripSemi(Strip(sql))

\* "Fix PostgreSQL quote issues": the three substitutions, in order.
FixEqQuotes(s) == Sub("eq_dq", <<"=", " ", "'", "\\1", "'">>, s)
FixInListHead(s) == Sub("in_dq", <<"IN", " ", "(", "'", "\\1", "'">>, s)
FixInListRest(s) == Sub("comma_dq", <<"'", ",", " ", "'", "\\1", "'">>, s)
FixQuotes(s) == FixInListRest(FixInListHead(FixEqQuotes(s)))

\* Every season predicate set to the first value, the AND-ed ones removed.
KeepFirstSeason(s, vals) ==
    Sub("and_and", <<"AND">>,
        Sub("and_season", <<>>,
            Sub("season", <<"season", " ", "=", " ", "'">> \o vals[1] \o <<"'">>, s)))

\* "AGGRESSIVE FIX: Detect and fix conflicting season conditions".
ExecFixConflict(s) ==
    IF Conflicting(SeasonMatches(s)) THEN KeepFirstSeason(s, SeasonMatches(s)) ELSE s

\* "CRITICAL POSTGRESQL FIXES": finished = 1/0, and the date column.
ExecFixPostgres(s) ==
    Sub("date", <<"kickoff_time">>,
        Sub("finished_0", <<"finished", " ", "=", " ", "false">>,
            Sub("finished_1", <<"finished", " ", "=", " ", "true">>, s)))

\* clean_sql as it stands at the SELECT check.
ExecFixed(sql) == ExecFixPostgres(ExecFixConflict(FixQuotes(ExecStrip(sql))))

\* clean_sql.count("season =") of the error classification.
CountSeasonEq(s) == Cardinality({i \in 1..Len(s) : OccursAt(s, <<"season", " ", "=">>, i)})

\* --------------------------------------------------------------- inputs

Season1 == "2024-2025"
Season2 == "2023-2024"
Seasons == {Season1, Season2}

MaxPreds == 2        \* predicates in a WHERE clause before GROUP BY
MaxLatePreds == 1    \* predicates in a WHERE clause after GROUP BY
MaxSemis == 2        \* trailing semicolons of a text given to _clean_sql
MaxPasses == 2       \* applications of _clean_sql to one text
MaxList == 3         \* elements of an IN list
MaxExecPreds == 1    \* predicates after the first in the WHERE clause of an /execute request
MaxPhrases == 1      \* phrases in a question for the canned queries
MaxOptimize == 1     \* /optimize requests
MaxHealth == 2       \* /health requests
MaxPieces == 2       \* pieces of a question for map_query
MaxRequests == 3     \* dashboard requests
MaxConflictPreds == 3  \* predicates of a text given to the conflict step
MaxForwardPreds == 3   \* predicates of a statement posted to /execute
MaxNoopPreds == 2      \* predicates of a text that may need no repair

SeqsUpTo(S, n) == UNION {[1..k -> S] : k \in 0..n}

SeasonPred(v, q) == <<"season", " ", "=", " ", q, v, q>>
OtherPred == <<"a", " ", ">", " ", "1">>
TeamPred == <<"team", " ", "=", " ", "\"", "Arsenal", "\"">>
FinishedPred == <<"finished", " ", "=", " ", "1">>
DatePred == <<"date", " ", ">", " ", "1">>

\* "A", "B", ... double-quoted and comma-separated.
RECURSIVE ListElems(_, _)
ListElems(k, n) ==
    <<"\"", <<"A", "B", "C", "D", "E">>[k], "\"">>
        \o (IF k = n THEN <<>> ELSE <<",", " ">> \o ListElems(k + 1, n))

InPred(n) == <<"team", " ", "IN", " ", "(">> \o ListElems(1, n) \o <<")">>

RECURSIVE JoinAnd(_)
JoinAnd(ps) ==
    IF Len(ps) = 0 THEN <<>>
    ELSE IF Len(ps) = 1 THEN ps[1]
    ELSE ps[1] \o <<" ", "AND", " ">> \o JoinAnd(Tail(ps))

WhereOf(ps) == IF Len(ps) = 0 THEN <<>> ELSE <<" ", "WHERE", " ">> \o JoinAnd(ps)

Semis(n) == [i \in 1..n |-> ";"]

\* Texts the generator can return: head, WHERE, GROUP BY, a late WHERE,
\* ORDER BY / LIMIT, semicolons.
GenPreds == {SeasonPred(Season1, "'"), SeasonPred(Season2, "'"), SeasonPred(Season1, "\""),
             SeasonPred(Season2, "\""), OtherPred}
GenHeads == {<<"SELECT", " ", "*", " ", "FROM", " ", "matches">>,
             <<"DROP", " ", "TABLE", " ", "matches">>}
GenGroups == {<<>>, <<" ", "GROUP", " ", "BY", " ", "home_team">>}
GenTails == {<<>>, <<" ", "ORDER", " ", "BY", " ", "a">>, <<" ", "LIMIT", " ", "1">>}

GenText(h, w1, g, w2, t, n) == h \o WhereOf(w1) \o g \o WhereOf(w2) \o t \o Semis(n)

\* Texts given to _clean_sql: the same shapes with a double-quoted literal,
\* and texts that are fenced or cut short.
CleanPreds == {SeasonPred(Season1, "'"), SeasonPred(Season2, "\""), OtherPred, TeamPred}
CleanHeads == {<<"SELECT", " ", "a", " ", "FROM", " ", "t">>}
CleanGroups == {<<>>, <<" ", "GROUP", " ", "BY", " ", "a">>}
CutTexts ==
    {<<Fence, "sql", "\n", "SELECT", " ", "a", " ", "FROM", " ", "t", "\n", Fence>>,
     <<"SELECT", " ", "SUM", "(", "CASE", " ", "WHEN", " ", "a", " ", ">", " ", "1", " ",
       "THEN", " ", "1", " ", "ELSE", " ", "0">>,
     <<"SELECT", " ", "home_score", ",", " ", "away", "_sco", "re", ",", " ", "away", "_sco">>,
     <<"SELECT", " ", "home_", " ", "FROM", " ", "t">>,
     <<"SELECT", "  ", "a", " ", "FROM", " ", "t", " ", "WHERE", " ", "a", " ", "=">>,
     <<"SELECT", " ", "a", " ", "FROM", " ", "t", " ", "WHERE", " ", "a", " ", "=", ";">>}

\* A question is a sequence of tokens too: words, pieces of words and single
\* spaces.  The questions of a request whose generator call may succeed.
Questions == {<<"league", " ", "table">>, <<"who", " ", "won">>}

\* The canned queries of _generate_fallback_sql.
HomeRecordSql(season) ==
    <<"SELECT", " ", "home_team", ",", "\n", Indent, "COUNT", "(", "*", ")", " ", "as", " ",
      "total_games", ",", "\n", Indent, "SUM", "(", "CASE", " ", "WHEN", " ", "result", " ",
      "=", " ", "'", "H", "'", " ", "THEN", " ", "1", " ", "ELSE", " ", "0", " ", "END", ")",
      " ", "as", " ", "wins", ",", "\n", Indent, "SUM", "(", "CASE", " ", "WHEN", " ",
      "result", " ", "=", " ", "'", "D", "'", " ", "THEN", " ", "1", " ", "ELSE", " ", "0",
      " ", "END", ")", " ", "as", " ", "draws", ",", "\n", Indent, "SUM", "(", "CASE", " ",
      "WHEN", " ", "result", " ", "=", " ", "'", "A", "'", " ", "THEN", " ", "1", " ", "ELSE",
      " ", "0", " ", "END", ")", " ", "as", " ", "losses", ",", "\n", Indent, "SUM", "(",
      "home_score", ")", " ", "as", " ", "goals_for", ",", "\n", Indent, "SUM", "(", "away",
      "_sco", "re", ")", " ", "as", " ", "goals_against", "\n", Indent, "FROM", " ", "matches",
      "\n", Indent, "WHERE", " ", "season", " ", "=", " ", "'", season, "'", "\n", Indent,
      "GROUP", " ", "BY", " ", "home_team", "\n", Indent, "ORDER", " ", "BY", " ", "wins", " ",
      "DESC", " ", "LIMIT", " ", "10">>

HighestScoringSql(season) ==
    <<"SELECT", " ", "home_team", ",", " ", "away_team", ",", " ", "home_score", ",", " ",
      "away", "_sco", "re", ",", "\n", Indent, "(", "home_score", " ", "+", " ", "away",
      "_sco", "re", ")", " ", "as", " ", "total_goals", ",", " ", "match_date", "\n", Indent,
      "FROM", " ", "matches", "\n", Indent, "WHERE", " ", "season", " ", "=", " ", "'", season,
      "'", "\n", Indent, "ORDER", " ", "BY", " ", "total_goals", " ", "DESC", " ", "LIMIT",
      " ", "10">>

LeagueSql(season, country) ==
    <<"SELECT", " ", "m", ".", "*", ",", " ", "l", ".", "name", " ", "as", " ", "league_name",
      "\n", Indent, "FROM", " ", "matches", " ", "m", "\n", Indent, "JOIN", " ", "leagues",
      " ", "l", " ", "ON", " ", "m", ".", "div", " ", "=", " ", "l", ".", "code", "\n", Indent,
      "WHERE", " ", "m", ".", "season", " ", "=", " ", "'", season, "'", " ", "AND", " ", "l",
      ".", "country", " ", "=", " ", "'", country, "'", "\n", Indent, "ORDER", " ", "BY", " ",
      "m", ".", "match_date", " ", "DESC", " ", "LIMIT", " ", "20">>

TeamStatsSql(season) ==
    <<"SELECT", " ", "*", " ", "FROM", " ", "team_stats", "\n", Indent, "WHERE", " ", "season",
      " ", "=", " ", "'", season, "'", "\n", Indent, "ORDER", " ", "BY", " ", "wins", " ",
      "DESC", ",", " ", "goals_for", " ", "DESC", " ", "LIMIT", " ", "20">>

RecentMatchesSql(season) ==
    <<"SELECT", " ", "m", ".", "home_team", ",", " ", "m", ".", "away_team", ",", " ", "m",
      ".", "home_score", ",", " ", "m", ".", "away", "_sco", "re", ",", "\n", Indent, "m", ".",
      "result", ",", " ", "m", ".", "match_date", ",", " ", "l", ".", "name", " ", "as", " ",
      "league_name", "\n", Indent, "FROM", " ", "matches", " ", "m", "\n", Indent, "JOIN", " ",
      "leagues", " ", "l", " ", "ON", " ", "m", ".", "div", " ", "=", " ", "l", ".", "code",
      "\n", Indent, "WHERE", " ", "m", ".", "season", " ", "=", " ", "'", season, "'", "\n",
      Indent, "ORDER", " ", "BY", " ", "m", ".", "match_date", " ", "DESC", " ", "LIMIT", " ",
      "20">>

\* _generate_fallback_sql: the first branch whose phrase is in question.lower().
FallbackFor(q, season) ==
    IF Contains(q, <<"home", " ", "record">>) \/ Contains(q, <<"best", " ", "home">>)
    THEN HomeRecordSql(season)
    ELSE IF Contains(q, <<"highest", " ", "scoring">>) \/ Contains(q, <<"most", " ", "goals">>)
    THEN HighestScoringSql(season)
    ELSE IF Contains(q, <<"premier", " ", "league">>) \/ Contains(q, <<"england">>)
    THEN LeagueSql(season, "England")
    ELSE IF Contains(q, <<"la", " ", "liga">>) \/ Contains(q, <<"spain">>)
    THEN LeagueSql(season, "Spain")
    ELSE IF Contains(q, <<"bundesliga">>) \/ Contains(q, <<"germany">>)
    THEN LeagueSql(season, "Germany")
    ELSE IF Contains(q, <<"serie", " ", "a">>) \/ Contains(q, <<"italy">>)
    THEN LeagueSql(season, "Italy")
    ELSE IF Contains(q, <<"team", " ", "stats">>) \/ Contains(q, <<"table">>)
    THEN TeamStatsSql(season)
    ELSE RecentMatchesSql(season)

FallbackSql(question, season) == FallbackFor(LowerSeq(question), season)

\* Questions for the canned queries: up to MaxPhrases phrases, and some that
\* match several branches or are capitalised.
FallbackPhrases ==
    {<<"home", " ", "record">>, <<"best", " ", "home">>, <<"highest", " ", "scoring">>,
     <<"most", " ", "goals">>, <<"premier", " ", "league">>, <<"england">>, <<"la", " ", "liga">>,
     <<"spain">>, <<"bundesliga">>, <<"germany">>, <<"serie", " ", "a">>, <<"italy">>,
     <<"team", " ", "stats">>, <<"table">>, <<"who", " ", "won">>}

RECURSIVE JoinSpace(_)
JoinSpace(ps) ==
    IF Len(ps) = 0 THEN <<>>
    ELSE IF Len(ps) = 1 THEN ps[1]
    ELSE ps[1] \o <<" ">> \o JoinSpace(Tail(ps))

FallbackQuestions ==
    {JoinSpace(ps) : ps \in SeqsUpTo(FallbackPhrases, MaxPhrases)}
        \cup {<<"Premier", " ", "League", " ", "TABLE">>,
              <<"italy", " ", "in", " ", "the", " ", "league", " ", "table", "s">>,
              <<"Who", " ", "has", " ", "the", " ", "best", " ", "home", " ", "record", " ",
                "in", " ", "spain", "?">>}

\* request.sql of an /execute request: a statement head, a WHERE clause
\* (an optional season predicate, then further predicates), and an optional
\* semicolon.
ExecHeads == {<<"SELECT", " ", "*", " ", "FROM", " ", "matches">>,
              <<" ", "select", " ", "*", " ", "FROM", " ", "matches">>,
              <<"DROP", " ", "TABLE", " ", "matches">>,
              <<"DELETE", " ", "FROM", " ", "matches">>,
              <<"INSERT", " ", "INTO", " ", "matches", " ", "SELECT", " ", "*", " ", "FROM",
                " ", "matches">>,
              <<"UPDATE", " ", "matches", " ", "SET", " ", "date", " ", "=", " ", "\"", "x",
                "\"">>}
ExecPreds == {TeamPred, SeasonPred(Season1, "'"), SeasonPred(Season2, "\""), FinishedPred, DatePred}
                 \cup {InPred(n) : n \in 1..MaxList}
ExecFirst == {<<>>, <<SeasonPred(Season1, "'")>>}
ExecEnds == {<<>>, <<";">>, <<";", " ">>}

\* How the executor call can end: rows, no data, an error object, or an
\* exception whose message the handler classifies.
Outcomes == {"rows", "none", "error", "does not exist", "syntax error", "permission denied",
             "other"}

\* ---------------------------------------------------------------- state

VARIABLES
    pc,         \* process_query: "idle", "generating", "explaining", "done"
    question,   \* the question of the request
    season,     \* the season of the request
    explain,    \* include_explanation of the request
    llm,        \* self.llm: the credential of the ChatOpenAI instance, or "none"
    raw,        \* the text _generate_sql returned
    sql,        \* the SQL after the repair steps
    executed,   \* the statements _execute_query was called with
    status,     \* how the request ended: "none", "ok", "missing_key"
    generr,     \* the exception the generator call raised, or "none"
    text,       \* _clean_sql on its own: the text, before and after each pass
    prev,       \* the text before the last application of _clean_sql
    passes,     \* applications of _clean_sql so far
    requested,  \* the requested season given to _validate_season_usage
    xpc,        \* /execute: "idle", "pending", "done"
    xsql,       \* request.sql of the /execute request
    forwarded,  \* the statements supabase.rpc('execute_sql', ...) was called with
    xstatus,    \* HTTP status of the /execute response, 0 before it
    xdetail,    \* which response /execute gave
    sql_chain,  \* the module globals sql_chain of main.py, query.py, optimize.py
    default_api_key, \* self.default_api_key of the chain
    reqs,       \* the /query requests: where each is and what it has done
    optimized,  \* the results of the optimize_query calls
    health,     \* rag_initialized of the /health responses
    cache,      \* the dict cache of dashboard.py
    now,        \* datetime.now().timestamp()
    fetched,    \* the backend queries of the dashboard so far
    served,     \* the dashboard responses
    asked,      \* the question given to map_query
    mapped      \* what map_query returned

qvars == <<pc, question, season, explain, llm, raw, sql, executed, status, generr>>
cvars == <<text, prev, passes, requested>>
xvars == <<xpc, xsql, forwarded, xstatus, xdetail>>
svars == <<sql_chain, default_api_key, reqs, optimized, health>>
dvars == <<cache, now, fetched, served>>
mvars == <<asked, mapped>>
rest == <<svars, dvars, mvars>>
vars == <<qvars, cvars, xvars, rest>>

NoText == <<>>

\* The /query requests in flight at once.
Reqs == {1, 2}

\* A request that has not arrived.
IdleReq ==
    [pc |-> "idle", api_key |-> "none", explain |-> FALSE, status |-> 0, called |-> {},
     gen |-> "none", expl |-> "none", generr |-> "none"]

\* (endpoint, parameters) of a dashboard request: get_cache_key.
DashKeys ==
    {<<"stats", "all">>, <<"stats", "E0">>, <<"matches", "all">>, <<"chart_goals_trend", "all">>,
     <<"chart_other", "all">>}

NoEntry == [data |-> 0, timestamp |-> 0]

\* No request has arrived and no text has been given to _clean_sql.
Init ==
    /\ pc = "idle" /\ question = NoText /\ season = "" /\ explain = FALSE /\ llm = "none"
    /\ raw = NoText /\ sql = NoText /\ executed = <<>> /\ status = "none" /\ generr = "none"
    /\ text = NoText /\ prev = NoText /\ passes = 0 /\ requested = ""
    /\ xpc = "idle" /\ xsql = NoText /\ forwarded = <<>> /\ xstatus = 0 /\ xdetail = "none"
    /\ sql_chain = [main |-> FALSE, query |-> FALSE, optimize |-> FALSE]
    /\ default_api_key = "none" /\ reqs = [r \in Reqs |-> IdleReq]
    /\ optimized = <<>> /\ health = <<>>
    /\ cache = [k \in DashKeys |-> NoEntry] /\ now = 0 /\ fetched = 0
    /\ served = [n |-> 0, key |-> <<"none", "all">>, status |-> 0, data |-> 0]
    /\ asked = NoText /\ mapped = [query |-> NoText, mappings |-> {}]

\* ------------------------------------------------ process_query (chain.py)

Keys == {"none", "key1"}

\* process_query up to the await of _generate_sql: the credential check,
\* the ChatOpenAI instance, the mapper and the retriever.
Request(q, r, e, k) ==
    /\ pc = "idle"
    /\ question' = q /\ season' = r /\ explain' = e
    /\ IF k = "none"
       THEN /\ status' = "missing_key" /\ pc' = "done" /\ llm' = llm
       ELSE /\ llm' = k /\ pc' = "generating" /\ status' = status
    /\ UNCHANGED <<raw, sql, executed, generr, cvars, xvars, rest>>

\* The rest of process_query once _generate_sql has returned text: the
\* repair steps and the call of _execute_query (which has no await inside),
\* up to the await of _generate_explanation.
Repaired(generated) ==
    /\ raw' = generated
    /\ sql' = RepairForQuery(generated, season)
    /\ executed' = Append(executed, sql')
    /\ IF explain THEN pc' = "explaining" /\ status' = status
       ELSE pc' = "done" /\ status' = "ok"
    /\ UNCHANGED <<question, season, explain, llm, cvars, xvars, rest>>

GenerateReturns(generated) == pc = "generating" /\ Repaired(generated) /\ generr' = generr

\* The exceptions the generator call can raise.
GenFailures == {"timeout", "api error", "authentication"}

\* A generator failure that ends the request.
GenerateFailsRequest(kind) ==
    /\ pc = "generating"
    /\ pc' = "done" /\ status' = "failed" /\ generr' = kind
    /\ UNCHANGED <<question, season, explain, llm, raw, sql, executed, cvars, xvars, rest>>

\* The generator call raised: the except Exception of _generate_sql returns
\* the canned query.
GenerateFails(kind) ==
    pc = "generating" /\ Repaired(FallbackSql(question, season)) /\ generr' = kind

\* _generate_explanation returned text, or its static fallback string.
Explained ==
    /\ pc = "explaining"
    /\ pc' = "done" /\ status' = "ok"
    /\ UNCHANGED <<question, season, explain, llm, raw, sql, executed, generr, cvars, xvars,
                   rest>>

NextQuery ==
    \/ \E q \in Questions, r \in Seasons, e \in BOOLEAN, k \in Keys : Request(q, r, e, k)
    \/ \E h \in GenHeads, w1 \in SeqsUpTo(GenPreds, MaxPreds), g \in GenGroups,
          w2 \in SeqsUpTo(GenPreds, MaxLatePreds), t \in GenTails, n \in 0..(MaxSemis - 1) :
          GenerateReturns(GenText(h, w1, g, w2, t, n))
    \/ \E kind \in GenFailures : GenerateFails(kind)
    \/ Explained

SpecQuery == Init /\ [][NextQuery]_vars

\* process_query when every generator call fails, over questions made of the
\* phrases _generate_fallback_sql looks for.
NextFallback ==
    \/ \E q \in FallbackQuestions, r \in Seasons, e \in BOOLEAN, k \in Keys : Request(q, r, e, k)
    \/ \E kind \in GenFailures : GenerateFails(kind)
    \/ Explained

SpecFallback == Init /\ [][NextFallback]_vars

\* process_query over generator texts that _validate_sql accepts and texts
\* it does not: cut short, fenced, not a SELECT.
NextAdvisory ==
    \/ \E q \in Questions, r \in Seasons, e \in BOOLEAN, k \in Keys : Request(q, r, e, k)
    \/ \E h \in GenHeads, w \in SeqsUpTo(GenPreds, MaxLatePreds), g \in GenGroups, t \in GenTails :
          GenerateReturns(GenText(h, w, g, <<>>, t, 0))
    \/ \E t \in CutTexts : GenerateReturns(t)
    \/ \E kind \in GenFailures : GenerateFails(kind)
    \/ Explained

SpecAdvisory == Init /\ [][NextAdvisory]_vars

\* ------------------------------------------------- _clean_sql on its own

\* A caller has a text to clean.
CleanInput(t) ==
    /\ passes = 0 /\ text = NoText
    /\ text' = t
    /\ UNCHANGED <<prev, passes, requested, qvars, xvars, rest>>

\* One call of _clean_sql on the current text.
CleanPass ==
    /\ text # NoText /\ passes < MaxPasses
    /\ prev' = text
    /\ text' = CleanSql(text)
    /\ passes' = passes + 1
    /\ UNCHANGED <<requested, qvars, xvars, rest>>

NextClean ==
    \/ \E h \in CleanHeads, w1 \in SeqsUpTo(CleanPreds, MaxPreds), g \in CleanGroups,
          w2 \in SeqsUpTo(CleanPreds, MaxLatePreds), t \in GenTails, n \in 0..MaxSemis :
          CleanInput(GenText(h, w1, g, w2, t, n))
    \/ \E t \in CutTexts : CleanInput(t)
    \/ CleanPass

SpecClean == Init /\ [][NextClean]_vars

\* ------------------------------- the conflict step of _clean_sql on its own

\* Texts as they reach the step (whitespace already collapsed): up to
\* MaxConflictPreds predicates, in a WHERE clause or in the ON of a join, with
\* the clauses that may follow and a terminator.  nowhere is a column whose
\* name has the letters of WHERE in it: the tokens no, where.
ConflictPreds == {SeasonPred(Season1, "'"), SeasonPred(Season2, "\""), OtherPred}
ConflictHeads == {<<"SELECT", " ", "a", " ", "FROM", " ", "t">>,
                  <<"SELECT", " ", "no", "where", " ", "FROM", " ", "t">>}
ConflictOpeners == {<<"WHERE">>, <<"JOIN", " ", "u", " ", "ON">>}
ConflictTails ==
    GenTails \cup {<<" ", "GROUP", " ", "BY", " ", "a">>,
                   <<" ", "ORDER", " ", "BY", " ", "a", " ", "LIMIT", " ", "1">>}
ConflictText(h, k, ps, t, n) ==
    h \o (IF Len(ps) = 0 THEN <<>> ELSE <<" ">> \o k \o <<" ">> \o JoinAnd(ps))
      \o t \o Semis(n)

\* The step "Fix conflicting WHERE conditions" applied to the current text.
ConflictPass ==
    /\ text # NoText /\ passes < MaxPasses
    /\ prev' = text
    /\ text' = FixConflict(text)
    /\ passes' = passes + 1
    /\ UNCHANGED <<requested, qvars, xvars, rest>>

NextConflict ==
    \/ \E h \in ConflictHeads, k \in ConflictOpeners,
          ps \in SeqsUpTo(ConflictPreds, MaxConflictPreds), t \in ConflictTails, n \in 0..1 :
          CleanInput(ConflictText(h, k, ps, t, n))
    \/ ConflictPass

SpecConflict == Init /\ [][NextConflict]_vars

\* ------------------------------------ texts that need no repair, both ways

IndentedQueries == {HomeRecordSql(r) : r \in Seasons} \cup {LeagueSql(r, "Spain") : r \in Seasons}

\* A run is either calls of _clean_sql by a caller, on texts with up to
\* MaxNoopPreds predicates and on texts with line breaks and indentation, or
\* a request to process_query whose generator call fails.
NextNoop ==
    \/ /\ pc = "idle"
       /\ \E h \in CleanHeads, w1 \in SeqsUpTo(ConflictPreds, MaxNoopPreds), g \in CleanGroups,
             w2 \in {<<>>, <<OtherPred>>}, t \in GenTails, n \in 0..1 :
             CleanInput(GenText(h, w1, g, w2, t, n))
    \/ /\ pc = "idle"
       /\ \E t \in CutTexts \cup IndentedQueries : CleanInput(t)
    \/ pc = "idle" /\ CleanPass
    \/ /\ text = NoText
       /\ \E q \in FallbackQuestions, r \in Seasons, e \in BOOLEAN, k \in Keys : Request(q, r, e, k)
    \/ \E kind \in GenFailures : GenerateFails(kind)
    \/ Explained

SpecNoop == Init /\ [][NextNoop]_vars

\* ---------------------------------------- _validate_season_usage on its own

\* Season predicates as a generator may spell them, and requested seasons,
\* one of which no predicate has.
UsagePreds ==
    {SeasonPred(Season1, "'"), SeasonPred(Season2, "\""), <<"SEASON", "=", "'", Season2, "'">>,
     <<"m", ".", "season", " ", "=", " ", "'", Season1, "'">>, OtherPred}
UsageSeasons == Seasons \cup {"2022-2023"}

\* A caller has a text and a requested season.
UsageInput(t, r) ==
    /\ passes = 0 /\ text = NoText
    /\ text' = t /\ requested' = r
    /\ UNCHANGED <<prev, passes, qvars, xvars, rest>>

\* One call of _validate_season_usage on the current text.
UsagePass ==
    /\ text # NoText /\ passes < MaxPasses
    /\ prev' = text
    /\ text' = ValidateSeasonUsage(text, requested)
    /\ passes' = passes + 1
    /\ UNCHANGED <<requested, qvars, xvars, rest>>

NextUsage ==
    \/ \E h \in CleanHeads, w \in SeqsUpTo(UsagePreds, MaxPreds), t \in GenTails,
          r \in UsageSeasons : UsageInput(GenText(h, w, <<>>, <<>>, t, 1), r)
    \/ UsagePass

SpecUsage == Init /\ [][NextUsage]_vars

\* ------------------------------------------- execute_sql_query (execute.py)

\* A POST /execute arrives.
Submit(s) ==
    /\ xpc = "idle"
    /\ xpc' = "pending" /\ xsql' = s
    /\ UNCHANGED <<forwarded, xstatus, xdetail, qvars, cvars, rest>>

\* A SELECT check that looks for the keyword anywhere in the statement.
RejectsWithoutSelect(clean) == ~Contains(UpperSeq(clean), <<"SELECT">>)

\* if not clean_sql.upper().strip().startswith('SELECT'): raise HTTPException(400)
Rejects(clean) == ~StartsWithSelect(clean)

\* The handler raises before the executor call.
Reject ==
    /\ xpc = "pending" /\ Rejects(ExecFixed(xsql))
    /\ xpc' = "done" /\ xstatus' = 400 /\ xdetail' = "only select"
    /\ UNCHANGED <<xsql, forwarded, qvars, cvars, rest>>

\* The response for each way the executor call ends.
StatusOf(o, clean) ==
    CASE o = "rows" -> 200
      [] o = "none" -> 500
      [] o = "error" -> 400
      [] o = "does not exist" -> 400
      [] o = "syntax error" -> 400
      [] o = "permission denied" -> 403
      [] OTHER -> IF Contains(clean, <<"season", " ", "=">>) /\ CountSeasonEq(clean) > 1
                  THEN 400 ELSE 500

DetailOf(o, clean) ==
    IF o = "other"
    THEN IF Contains(clean, <<"season", " ", "=">>) /\ CountSeasonEq(clean) > 1
         THEN "conflicting seasons" ELSE "execution failed"
    ELSE o

\* The handler calls the executor with the fixed text and answers.
Forward(o, clean) ==
    /\ xpc = "pending" /\ ~Rejects(clean)
    /\ forwarded' = Append(forwarded, clean)
    /\ xpc' = "done" /\ xstatus' = StatusOf(o, clean) /\ xdetail' = DetailOf(o, clean)
    /\ UNCHANGED <<xsql, qvars, cvars, rest>>

NextExecute ==
    \/ \E h \in ExecHeads, f \in ExecFirst, w \in SeqsUpTo(ExecPreds, MaxExecPreds),
          e \in ExecEnds :
          Submit(h \o WhereOf(f \o w) \o e)
    \/ Reject
    \/ \E o \in Outcomes : Forward(o, ExecFixed(xsql))

SpecExecute == Init /\ [][NextExecute]_vars

\* The same handler on statements with up to MaxForwardPreds predicates in any
\* order, and with a second statement after a semicolon.
ForwardPreds == {SeasonPred(Season1, "'"), SeasonPred(Season2, "\""), OtherPred}
ForwardHeads == {<<"SELECT", " ", "*", " ", "FROM", " ", "matches">>,
                 <<"DROP", " ", "TABLE", " ", "matches">>}
ForwardEnds == {<<>>, <<";">>, <<";", " ", "DROP", " ", "TABLE", " ", "matches">>}

NextForward ==
    \/ \E h \in ForwardHeads, w \in SeqsUpTo(ForwardPreds, MaxForwardPreds), e \in ForwardEnds :
          Submit(h \o WhereOf(w) \o e)
    \/ Reject
    \/ \E o \in Outcomes : Forward(o, ExecFixed(xsql))

SpecForward == Init /\ [][NextForward]_vars

\* --------------------------------------------- map_query (rag/football.py)

\* self.positions: a phrase and its SQL fragment.
Positions ==
    {<<<<"goal", "keeper">>, "position = 'GK'">>,
     <<<<"keeper">>, "position = 'GK'">>,
     <<<<"gk">>, "position = 'GK'">>,
     <<<<"defender">>, "position = 'DEF'">>,
     <<<<"defence">>, "position = 'DEF'">>,
     <<<<"center", " ", "back">>, "position = 'DEF'">>,
     <<<<"full", " ", "back">>, "position = 'DEF'">>,
     <<<<"midfield", "er">>, "position = 'MID'">>,
     <<<<"midfield">>, "position = 'MID'">>,
     <<<<"striker">>, "position = 'FWD'">>,
     <<<<"forward">>, "position = 'FWD'">>,
     <<<<"attacker">>, "position = 'FWD'">>,
     <<<<"winger">>, "position IN ('MID', 'FWD')">>}

\* self.team_groups, each list of teams already joined into the IN list
\* that map_query builds from it.
TeamGroups ==
    {<<<<"big", " ", "six">>, "team IN ('Arsenal', 'Chelsea', 'Liverpool', 'Man City', 'Man Utd', 'Tottenham')">>,
     <<<<"big", " ", "6">>, "team IN ('Arsenal', 'Chelsea', 'Liverpool', 'Man City', 'Man Utd', 'Tottenham')">>,
     <<<<"london", " ", "clubs">>, "team IN ('Arsenal', 'Chelsea', 'Tottenham', 'Fulham', 'Brentford', 'West Ham')">>,
     <<<<"manchester", " ", "clubs">>, "team IN ('Man City', 'Man Utd')">>,
     <<<<"north", " ", "london">>, "team IN ('Arsenal', 'Tottenham')">>,
     <<<<"merseyside">>, "team IN ('Liverpool', 'Everton')">>,
     <<<<"promoted">>, "team IN ('Leicester', 'Ipswich', 'Southampton')">>,
     <<<<"relegated">>, "team IN ('Luton', 'Burnley', 'Sheffield Utd')">>}

\* self.concepts
Concepts ==
    {<<<<"clean", " ", "sheet">>, "goals_conceded = 0">>,
     <<<<"clean", " ", "sheet", "s">>, "clean_sheets > 0">>,
     <<<<"hat", " ", "trick">>, "goals >= 3">>,
     <<<<"hattrick">>, "goals >= 3">>,
     <<<<"brace">>, "goals = 2">>,
     <<<<"double">>, "goals = 2">>,
     <<<<"assist">>, "assists > 0">>,
     <<<<"goal", " ", "contribution">>, "(goals + assists)">>,
     <<<<"goal", " ", "involvement">>, "(goals + assists)">>,
     <<<<"double", " ", "digit", " ", "haul">>, "total_points >= 10">>,
     <<<<"blank">>, "total_points <= 2">>,
     <<<<"benched">>, "minutes_played = 0">>,
     <<<<"starter">>, "minutes_played > 0">>,
     <<<<"full", " ", "90">>, "minutes_played >= 90">>,
     <<<<"substitute">>, "minutes_played > 0 AND minutes_played < 60">>,
     <<<<"red", " ", "card">>, "red_cards > 0">>,
     <<<<"yellow", " ", "card">>, "yellow_cards > 0">>,
     <<<<"booking">>, "yellow_cards > 0">>,
     <<<<"sent", " ", "off">>, "red_cards > 0">>}

\* self.time_periods
TimePeriods ==
    {<<<<"this", " ", "season">>, "season = '2024-2025'">>,
     <<<<"current", " ", "season">>, "season = '2024-2025'">>,
     <<<<"last", " ", "season">>, "season = '2023-2024'">>,
     <<<<"previous", " ", "season">>, "season = '2023-2024'">>,
     <<<<"this", " ", "year">>, "season = '2024-2025'">>,
     <<<<"last", " ", "year">>, "season = '2023-2024'">>,
     <<<<"december">>, "EXTRACT(MONTH FROM kickoff_time) = 12">>,
     <<<<"january">>, "EXTRACT(MONTH FROM kickoff_time) = 1">>,
     <<<<"festive", " ", "period">>, "EXTRACT(MONTH FROM kickoff_time) IN (12, 1)">>,
     <<<<"last", " ", "5", " ", "games">>, "gameweek >= (SELECT MAX(gameweek) - 4 FROM matches WHERE finished = true)">>,
     <<<<"last", " ", "10", " ", "games">>, "gameweek >= (SELECT MAX(gameweek) - 9 FROM matches WHERE finished = true)">>}

\* self.metrics
Metrics ==
    {<<<<"top", " ", "scorer">>, "ORDER BY goals_scored DESC">>,
     <<<<"top", " ", "scorer", "s">>, "ORDER BY goals_scored DESC">>,
     <<<<"golden", " ", "boot">>, "ORDER BY goals_scored DESC LIMIT 1">>,
     <<<<"most", " ", "assist", "s">>, "ORDER BY assists DESC">>,
     <<<<"best", " ", "form">>, "ORDER BY form DESC">>,
     <<<<"worst", " ", "form">>, "ORDER BY form ASC">>,
     <<<<"highest", " ", "xg">>, "ORDER BY expected_goals DESC">>,
     <<<<"overperforming", " ", "xg">>, "(goals_scored - expected_goals) DESC">>,
     <<<<"underperforming", " ", "xg">>, "(expected_goals - goals_scored) DESC">>,
     <<<<"most", " ", "minutes">>, "ORDER BY minutes DESC">>,
     <<<<"most", " ", "points">>, "ORDER BY total_points DESC">>,
     <<<<"best", " ", "value">>, "ORDER BY (total_points / (now_cost / 10.0)) DESC">>}

\* self.aggregations
Aggregations ==
    {<<<<"total">>, "SUM">>,
     <<<<"average">>, "AVG">>,
     <<<<"mean">>, "AVG">>,
     <<<<"maximum">>, "MAX">>,
     <<<<"minimum">>, "MIN">>,
     <<<<"count">>, "COUNT">>,
     <<<<"number", " ", "of">>, "COUNT">>}

\* One table of map_query: the entries whose phrase is in query_lower, each
\* under the key <prefix>_<phrase>, kept here as the pair of its parts.
MapTable(prefix, table, q) == {<<prefix, e[1], e[2]>> : e \in {e \in table : Contains(q, e[1])}}

MapTables(q) ==
    MapTable("position", Positions, q) \cup MapTable("team_group", TeamGroups, q)
        \cup MapTable("concept", Concepts, q) \cup MapTable("time", TimePeriods, q)
        \cup MapTable("metric", Metrics, q) \cup MapTable("agg", Aggregations, q)

\* A map_query that looks for the phrases in the question as it is spelled.
MapQueryAsSpelled(query) == [query |-> query, mappings |-> MapTables(query)]

\* map_query
MapQuery(query) == [query |-> query, mappings |-> MapTables(LowerSeq(query))]

\* Questions: up to MaxPieces pieces with single spaces between them, and
\* the question "Who are the top scorers among strikers this season?".
QuestionPieces ==
    {<<"Who", " ", "are", " ", "the">>, <<"top", " ", "scorer", "s">>, <<"Top", " ", "scorer">>,
     <<"striker", "s">>, <<"THIS", " ", "season">>, <<"last", " ", "season">>,
     <<"north", " ", "london", " ", "clubs">>, <<"goal", "keeper", "s">>, <<"count", "ry">>,
     <<"most", " ", "assist", "s">>, <<"clean", " ", "sheet", "s">>,
     <<"double", " ", "digit", " ", "haul">>, <<"midfield", "er">>}

ExampleQuestion ==
    <<"Who", " ", "are", " ", "the", " ", "top", " ", "scorer", "s", " ", "among", " ",
      "striker", "s", " ", "this", " ", "season", "?">>

MapperQuestions ==
    ({JoinSpace(ps) : ps \in SeqsUpTo(QuestionPieces, MaxPieces)} \ {NoText})
        \cup {ExampleQuestion}

\* A caller has a question for map_query.
Ask(q) ==
    /\ asked = NoText
    /\ asked' = q
    /\ UNCHANGED <<mapped, qvars, cvars, xvars, svars, dvars>>

\* map_query returns.
Mapped ==
    /\ asked # NoText /\ mapped.query = NoText
    /\ mapped' = MapQuery(asked)
    /\ UNCHANGED <<asked, qvars, cvars, xvars, svars, dvars>>

NextMapper ==
    \/ \E q \in MapperQuestions : Ask(q)
    \/ Mapped

SpecMapper == Init /\ [][NextMapper]_vars

\* ------------------------- the server (main.py, api/query.py, api/optimize.py)

\* The variables of the single request that the server's handlers leave alone.
elsewhere == <<pc, question, season, explain, raw, sql, executed, status, generr, cvars, xvars,
               dvars, mvars>>

\* The credential request r carries when it carries one, and the values of
\* VITE_OPENAI_API_KEY.
Credential(r) == IF r = 1 THEN "keyA" ELSE "keyB"
DefaultKeys == {"none", "envkey"}

\* current_api_key = api_key or self.default_api_key
CurrentKey(k) == IF k # "none" THEN k ELSE default_api_key

\* The message of the ValueError of process_query, and messages of
\* exceptions the retriever can raise.
MissingKeyMessage ==
    <<"OpenAI", " ", "API", " ", "key", " ", "is", " ", "required", ".", " ", "Please", " ",
      "provide", " ", "it", " ", "in", " ", "the", " ", "request", " ", "or", " ", "set", " ",
      "VITE_OPENAI_API_KEY", " ", "environment", " ", "variable", ".">>
RetrieverMessages == {<<"Request", " ", "timeout">>, <<"collection", " ", "not", " ", "found">>}

\* A test for the phrase in the message as it is spelled.
ValueErrorStatusAsSpelled(msg) == IF Contains(msg, <<"api", " ", "key">>) THEN 401 ELSE 400

\* except ValueError of the /query handler.
ValueErrorStatus(msg) == IF Contains(LowerSeq(msg), <<"api", " ", "key">>) THEN 401 ELSE 400

\* except Exception of the /query handler.
ExceptionStatus(msg) ==
    IF Contains(LowerSeq(msg), <<"api">>) /\ Contains(LowerSeq(msg), <<"key">>) THEN 401
    ELSE IF Contains(LowerSeq(msg), <<"openai">>) THEN 502
    ELSE IF Contains(LowerSeq(msg), <<"timeout">>) THEN 504
    ELSE 500

\* A startup that installs the chain for /query only.
StartupQueryOnly(d) ==
    /\ ~sql_chain.main
    /\ sql_chain' = [main |-> TRUE, query |-> TRUE, optimize |-> FALSE]
    /\ default_api_key' = d
    /\ UNCHANGED <<llm, reqs, optimized, health, elsewhere>>

\* startup_event from the construction of the chain on (no await after it):
\* SQLChain reads the default key, set_dependencies and set_sql_chain
\* install the chain.
Startup(d) ==
    /\ ~sql_chain.main
    /\ sql_chain' = [main |-> TRUE, query |-> TRUE, optimize |-> TRUE]
    /\ default_api_key' = d
    /\ UNCHANGED <<llm, reqs, optimized, health, elsewhere>>

\* How a request that has arrived ends without a generator call.
Ended(r, k, e, code, calls) ==
    [reqs EXCEPT ![r] = [@ EXCEPT !.pc = "done", !.api_key = k, !.explain = e,
                                  !.status = code, !.called = calls]]

\* POST /query: the handler and process_query up to the await of the
\* generator call.  retrieved is the message of the exception of
\* search_schema, empty when it returns.
Query(r, k, e, retrieved) ==
    /\ reqs[r].pc = "idle"
    /\ IF ~sql_chain.query
       THEN reqs' = Ended(r, k, e, 503, {}) /\ llm' = llm
       ELSE IF CurrentKey(k) = "none"
       THEN reqs' = Ended(r, k, e, ValueErrorStatus(MissingKeyMessage), {}) /\ llm' = llm
       ELSE /\ llm' = CurrentKey(k)
            /\ IF retrieved # NoText
               THEN reqs' = Ended(r, k, e, ExceptionStatus(retrieved), {"mapper", "retriever"})
               ELSE reqs' = [reqs EXCEPT ![r] =
                                [@ EXCEPT !.pc = "generating", !.api_key = k, !.explain = e,
                                          !.called = {"mapper", "retriever", "generator"},
                                          !.gen = llm']]
    /\ UNCHANGED <<sql_chain, default_api_key, optimized, health, elsewhere>>

\* The generator call of request r returns text or raises; process_query
\* goes on to the executor and, with include_explanation, to the await of
\* the explanation call, made with self.llm as it is now.
Generated(r, o) ==
    /\ reqs[r].pc = "generating"
    /\ reqs' = [reqs EXCEPT ![r] =
                   [@ EXCEPT !.generr = IF o = "text" THEN "none" ELSE o,
                             !.called = @ \cup {"executor"}
                                          \cup (IF o = "text" THEN {} ELSE {"fallback"}),
                             !.expl = IF reqs[r].explain THEN llm ELSE "none",
                             !.pc = IF reqs[r].explain THEN "explaining" ELSE "done",
                             !.status = IF reqs[r].explain THEN 0 ELSE 200]]
    /\ UNCHANGED <<llm, sql_chain, default_api_key, optimized, health, elsewhere>>

\* The explanation call of request r returns or raises; the response is sent.
ExplanationDone(r) ==
    /\ reqs[r].pc = "explaining"
    /\ reqs' = [reqs EXCEPT ![r] = [@ EXCEPT !.pc = "done", !.status = 200]]
    /\ UNCHANGED <<llm, sql_chain, default_api_key, optimized, health, elsewhere>>

\* POST /optimize: the handler and optimize_query.  o is how the generator
\* call ends when there is one.
Optimize(o) ==
    /\ Len(optimized) < MaxOptimize
    /\ optimized' = Append(optimized,
           IF ~sql_chain.optimize THEN [status |-> 503, explanation |-> "none", credential |-> "none"]
           ELSE IF llm = "none"
           THEN [status |-> 200, explanation |-> "Optimization requires LLM initialization",
                 credential |-> "none"]
           ELSE [status |-> 200, explanation |-> o, credential |-> llm])
    /\ UNCHANGED <<llm, sql_chain, default_api_key, reqs, health, elsewhere>>

\* GET /health
Health ==
    /\ Len(health) < MaxHealth
    /\ health' = Append(health, sql_chain.main)
    /\ UNCHANGED <<llm, sql_chain, default_api_key, reqs, optimized, elsewhere>>

\* Two /query requests at once, and /optimize requests.
NextServer ==
    \/ \E d \in DefaultKeys : Startup(d)
    \/ \E r \in Reqs : \E k \in {"none", Credential(r)}, e \in BOOLEAN,
          m \in {NoText} \cup RetrieverMessages : Query(r, k, e, m)
    \/ \E r \in Reqs, o \in {"text"} \cup GenFailures : Generated(r, o)
    \/ \E r \in Reqs : ExplanationDone(r)
    \/ \E o \in {"optimized", "Error optimizing"} : Optimize(o)

SpecServer == Init /\ [][NextServer]_vars

\* One /query request, /optimize and /health requests, before and after
\* startup.
NextStartup ==
    \/ \E d \in DefaultKeys : Startup(d)
    \/ \E k \in {"none", Credential(1)}, e \in BOOLEAN, m \in {NoText} \cup RetrieverMessages :
          Query(1, k, e, m)
    \/ \E o \in {"text"} \cup GenFailures : Generated(1, o)
    \/ ExplanationDone(1)
    \/ \E o \in {"optimized", "Error optimizing"} : Optimize(o)
    \/ Health

SpecStartup == Init /\ [][NextStartup]_vars

\* --------------------------------------- the dashboard cache (api/dashboard.py)

CACHE_TTL == 3600

\* The instants of datetime.now() at which something happens: around one and
\* two cache lifetimes after the start.
Times == {0, 1, CACHE_TTL - 1, CACHE_TTL, CACHE_TTL + 1, 2 * CACHE_TTL}

\* A validity test that still accepts an entry at the end of its lifetime.
IsCacheValidInclusive(entry) == entry.data # 0 /\ (now - entry.timestamp) <= CACHE_TTL

\* cache_key in cache and is_cache_valid(cache[cache_key])
IsCacheValid(entry) == entry.data # 0 /\ (now - entry.timestamp) < CACHE_TTL

\* Time passes.
Advance(t) ==
    /\ t > now
    /\ now' = t
    /\ UNCHANGED <<cache, fetched, served, qvars, cvars, xvars, svars, mvars>>

\* The response of a handler that has queried the backend: 500 when the
\* query raised, 400 for a chart type the handler does not know, no rows
\* for /dashboard/matches on an empty table, else the data just computed.
Fresh(k, o, data) ==
    IF o = "error" THEN [n |-> served.n + 1, key |-> k, status |-> 500, data |-> 0]
    ELSE IF k[1] = "chart_other" THEN [n |-> served.n + 1, key |-> k, status |-> 400, data |-> 0]
    ELSE IF k[1] = "matches" /\ o = "empty"
    THEN [n |-> served.n + 1, key |-> k, status |-> 200, data |-> 0]
    ELSE [n |-> served.n + 1, key |-> k, status |-> 200, data |-> data]

\* GET /dashboard/stats, /dashboard/matches or /dashboard/charts/{type}
\* with the parameters of key k; o is how the backend query ends.  Data is
\* identified by the number of the backend query it came from.
Dashboard(k, o) ==
    /\ served.n < MaxRequests
    /\ IF IsCacheValid(cache[k])
       THEN /\ served' = [n |-> served.n + 1, key |-> k, status |-> 200, data |-> cache[k].data]
            /\ UNCHANGED <<cache, fetched>>
       ELSE /\ fetched' = fetched + 1
            /\ served' = Fresh(k, o, fetched')
            /\ cache' = IF served'.status = 200 /\ served'.data # 0
                        THEN [cache EXCEPT ![k] = [data |-> fetched', timestamp |-> now]]
                        ELSE cache
    /\ UNCHANGED <<now, qvars, cvars, xvars, svars, mvars>>

NextDashboard ==
    \/ \E t \in Times : Advance(t)
    \/ \E k \in DashKeys, o \in {"rows", "empty", "error"} : Dashboard(k, o)

SpecDashboard == Init /\ [][NextDashboard]_vars

\* ---------------------------------------------------------------- claims

\* process_query has run its repair steps on the generator's text.
QueryRepaired == pc \in {"explaining", "done"} /\ raw # NoText

\* C1: running _clean_sql on its own output changes nothing: the second
\* application of _clean_sql to a text returns its argument.
C1_Idempotent == passes = 2 => text = prev

\* C2: for the generator output SELECT * FROM matches WHERE season =
\* "2023-2024" GROUP BY home_team WHERE season = "2024-2025" and the requested
\* season 2024-2025, the repair steps of process_query give exactly
\* SELECT * FROM matches WHERE season = '2024-2025' GROUP BY home_team;
C2_Input ==
    <<"SELECT", " ", "*", " ", "FROM", " ", "matches", " ", "WHERE", " ">>
        \o SeasonPred(Season2, "\"") \o <<" ", "GROUP", " ", "BY", " ", "home_team", " ", "WHERE", " ">>
        \o SeasonPred(Season1, "\"")
C2_Expected ==
    <<"SELECT", " ", "*", " ", "FROM", " ", "matches", " ", "WHERE", " ">>
        \o SeasonPred(Season1, "'") \o <<" ", "GROUP", " ", "BY", " ", "home_team", ";">>
C2_Scenario == (QueryRepaired /\ raw = C2_Input /\ season = Season1) => sql = C2_Expected

\* C3: the SQL process_query returns is scoped to the requested season:
\* every season predicate in it has the requested value.
C3_SingleSeason == QueryRepaired => \A k \in DOMAIN SeasonMatches(sql) : SeasonMatches(sql)[k] = <<season>>

\* C5: process_query never calls _execute_query with a statement that does
\* not begin with SELECT; such a request ends with a client error instead.
C5_OnlySelectExecuted ==
    /\ \A k \in DOMAIN executed : StartsWithSelect(executed[k])
    /\ (QueryRepaired /\ ~StartsWithSelect(sql)) => status = "rejected"

\* C6: when the WHERE clause of the generator output is two AND-ed season
\* predicates with different values and the requested season is one of them,
\* the repaired SQL has exactly one season predicate, with the requested
\* value, whichever value came first.
C6_Inputs ==
    {<<"SELECT", " ", "*", " ", "FROM", " ", "matches">>
        \o WhereOf(<<SeasonPred(a, "'"), SeasonPred(b, "'")>>) :
            a \in Seasons, b \in Seasons} \ {<<"SELECT", " ", "*", " ", "FROM", " ", "matches">>
        \o WhereOf(<<SeasonPred(a, "'"), SeasonPred(a, "'")>>) : a \in Seasons}
C6_ConflictResolved == (QueryRepaired /\ raw \in C6_Inputs) => SeasonMatches(sql) = <<<<season>>>>

\* Some WHERE of s stands after a GROUP BY of s.
WhereAfterGroup(s) ==
    \E g \in 1..Len(s), w \in 1..Len(s) :
        MatchEnd("group_by", s, g) > 0 /\ MatchEnd("where", s, w) > 0 /\ w > g

\* C7: for a text with a WHERE after GROUP BY, _clean_sql returns a text in
\* which the WHERE clause stands before GROUP BY, also when the text has
\* another WHERE before the GROUP BY.
C7_WhereBeforeGroup == (passes = 1 /\ WhereAfterGroup(prev)) => ~WhereAfterGroup(text)

\* C8: the output of _clean_sql ends with exactly one semicolon.
C8_OneSemicolon == passes >= 1 => EndsWith(text, <<";">>) /\ ~EndsWith(text, <<";", ";">>)

\* C9: in the text _clean_sql returns, no double-quoted literal follows
\* an "=": every = "literal" has been rewritten to = 'literal'.
C9_CleanNormalizesQuotes == passes >= 1 => Search("eq_dq", text) = 0
\* The first keyword of the statement an /execute request carries.
NonSelectHeads == {"DROP", "DELETE", "INSERT", "UPDATE"}

\* C4: an /execute request whose SQL, after the endpoint's textual fixes,
\* does not begin with SELECT never reaches supabase.rpc and is answered
\* with a 4xx status; so is every request that begins with DROP, DELETE,
\* INSERT or UPDATE.
C4_NonSelectRejected ==
    (xpc = "done" /\ (~StartsWithSelect(ExecFixed(xsql)) \/ xsql[1] \in NonSelectHeads))
        => forwarded = <<>> /\ xstatus \in 400..499

\* An UPDATE whose text the quote and date fixes rewrote has been answered.
C4_Witness ==
    /\ xpc = "done" /\ xsql[1] = "UPDATE" /\ ExecFixed(xsql) # xsql
    /\ xstatus = 400 /\ forwarded = <<>>

\* Between each IN and the next closing parenthesis of s there is no
\* double quote.
InListConverted(s) ==
    \A i \in 1..Len(s) :
        s[i] = "IN" => \A j \in i..Min({SkipTo(s, i, {")"}), Len(s)}) : s[j] # "\""

\* C10: the IN-list rewrite of execute_sql_query converts every element of
\* a double-quoted list, so the statement given to the executor has no
\* double quote left in an IN list.
C10_ListConverted == \A k \in DOMAIN forwarded : InListConverted(forwarded[k])

\* The canned queries for one season, and the phrases that select one.
CannedQueries(r) ==
    {HomeRecordSql(r), HighestScoringSql(r), TeamStatsSql(r), RecentMatchesSql(r)}
        \cup {LeagueSql(r, c) : c \in {"England", "Spain", "Germany", "Italy"}}

MatchesNoPhrase(q) == \A ph \in FallbackPhrases \ {<<"who", " ", "won">>} : ~Contains(LowerSeq(q), ph)

\* C12: when the generator call fails, in whatever way, the request does not
\* fail: the generated text is one of the canned queries (the recent-matches
\* query when the question holds none of the phrases), it has a season
\* predicate with the requested season, and process_query repairs it, gives
\* it to _execute_query and ends normally.
C12_FallbackServes ==
    generr # "none" =>
        /\ pc \in {"explaining", "done"}
        /\ raw \in CannedQueries(season)
        /\ MatchesNoPhrase(question) => raw = RecentMatchesSql(season)
        /\ <<season>> \in Range(SeasonMatches(raw))
        /\ executed = <<sql>> /\ StartsWithSelect(sql)
        /\ pc = "done" => status = "ok"

\* A request whose generator call timed out has ended normally with the
\* home-record query, chosen before the league and table phrases.
C12_Witness ==
    /\ pc = "done" /\ status = "ok" /\ generr = "timeout"
    /\ Contains(question, <<"spain">>) /\ raw = HomeRecordSql(season)

\* C16: validation is advisory.  Whether or not _validate_sql accepts the
\* text, _clean_sql returns that text with its semicolon, and process_query
\* goes on with it to _execute_query; _validate_sql gives a Boolean for
\* every text.
C16_ValidationAdvisory ==
    QueryRepaired =>
        /\ ValidateSql(CleanSqlValidated(raw)) \in BOOLEAN
        /\ sql = ValidateSeasonUsage(
                     FilterIfMissing(EnsureSemicolon(CleanSqlValidated(raw)), season), season)
        /\ executed = <<sql>>
        /\ status \in {"none", "ok"}

\* A text that fails validation has been executed and the request has
\* ended normally.
C16_Witness ==
    /\ QueryRepaired /\ ~ValidateSql(CleanSqlValidated(raw))
    /\ executed = <<sql>> /\ Len(sql) > 1 /\ pc = "done" /\ status = "ok"

\* C11: a request that reaches process_query with no api_key, while no
\* default key is configured, ends with status 401 and nothing of the
\* pipeline has been called for it: no mapper, retriever, generator,
\* executor or canned query.
C11_MissingCredential ==
    \A r \in Reqs :
        (reqs[r].pc # "idle" /\ reqs[r].status # 503 /\ reqs[r].api_key = "none"
            /\ default_api_key = "none")
        => /\ reqs[r].pc = "done" /\ reqs[r].status = 401
           /\ reqs[r].called = {} /\ reqs[r].gen = "none" /\ reqs[r].generr = "none"

\* A request without a credential got 401 from the installed chain while
\* the other request, with its own key, was served.
C11_Witness ==
    /\ sql_chain.query /\ default_api_key = "none"
    /\ reqs[1].api_key = "none" /\ reqs[1].status = 401 /\ reqs[1].called = {}
    /\ reqs[2].status = 200 /\ llm = "keyB"

\* C13: a request whose generator call failed with an authentication error
\* ends with an authorization error, never with a successful response.
C13_InvalidCredentialSurfaced ==
    \A r \in Reqs :
        (reqs[r].pc = "done" /\ reqs[r].generr = "authentication") => reqs[r].status \in {401, 403}

\* C14: every generator call made for a request that carries a credential,
\* the SQL generation call and the explanation call, uses that credential.
C14_OwnCredential ==
    \A r \in Reqs :
        reqs[r].api_key # "none" =>
            /\ reqs[r].gen \in {"none", reqs[r].api_key}
            /\ reqs[r].expl \in {"none", reqs[r].api_key}

\* C15: process_query leaves the fields of the chain as it found them:
\* when no request is in flight self.llm is unset as after construction,
\* so optimize_query answers as it does on a chain nobody has queried.
C15_NoPersistentState ==
    /\ (\A r \in Reqs : reqs[r].pc \in {"idle", "done"}) => llm = "none"
    /\ \A k \in DOMAIN optimized :
          optimized[k].status = 200
              => optimized[k].explanation = "Optimization requires LLM initialization"

\* set_dependencies and set_sql_chain have installed the chain.
Installed == sql_chain.query /\ sql_chain.optimize

\* C19: while the chain is not installed a /query or /optimize request is
\* answered 503 with nothing of the chain called, and /health reports
\* rag_initialized false; once it is installed it stays installed, no
\* request is answered 503 and /health reports true.
C19_UnavailableUntilInstalled ==
    [][/\ \A r \in Reqs :
             (reqs[r].pc = "idle" /\ reqs'[r].pc # "idle")
                 => IF ~Installed
                    THEN reqs'[r].status = 503 /\ reqs'[r].called = {} /\ llm' = llm
                    ELSE reqs'[r].status # 503
       /\ \A r \in Reqs : reqs[r].pc \in {"generating", "explaining"} => reqs'[r].status # 503
       /\ Len(optimized') > Len(optimized)
             => IF ~Installed
                THEN optimized'[Len(optimized')].status = 503
                        /\ optimized'[Len(optimized')].credential = "none"
                ELSE optimized'[Len(optimized')].status # 503
       /\ Len(health') > Len(health) => health'[Len(health')] = Installed
       /\ Installed => Installed']_vars

\* /health said false and then true, the /query request sent before startup
\* got 503 and the /optimize request sent after it got 200.
C19_Witness ==
    /\ Installed /\ health = <<FALSE, TRUE>> /\ reqs[1].status = 503
    /\ Len(optimized) = 1 /\ optimized[1].status = 200

\* Every season predicate of s is spelled season = 'r'.
AllCanonical(s, r, at) == \A k \in DOMAIN at : OccursAt(s, SeasonClause(r), at[k])

\* C20: _validate_season_usage(sql, r).  When sql has season predicates and
\* none has the value r, the result has as many season predicates, each
\* spelled season = 'r', and is sql everywhere else; otherwise the result is
\* sql.  A second application with the same r changes nothing.
C20_SeasonUsage ==
    /\ passes >= 1 =>
          IF Len(SeasonMatches(prev)) > 0 /\ \A k \in DOMAIN SeasonMatches(prev) :
                                                SeasonMatches(prev)[k] # <<requested>>
          THEN /\ SeasonMatches(text) = [k \in DOMAIN SeasonMatches(prev) |-> <<requested>>]
               /\ AllCanonical(text, requested, FindAll("season", text))
               /\ Sub("season", <<>>, text) = Sub("season", <<>>, prev)
          ELSE text = prev
    /\ passes = 2 => text = prev

\* Two predicates with different values, neither the requested one, have
\* been rewritten, and the second application has left the result alone.
C20_Witness ==
    /\ passes = 2 /\ text = prev /\ SeasonMatches(text) = <<<<"2022-2023">>, <<"2022-2023">>>>
    /\ Contains(text, <<"m", ".">> \o SeasonClause("2022-2023"))

\* Every entry of the six term tables with its category prefix.
TermEntries ==
    {<<"position", e[1], e[2]>> : e \in Positions}
        \cup {<<"team_group", e[1], e[2]>> : e \in TeamGroups}
        \cup {<<"concept", e[1], e[2]>> : e \in Concepts}
        \cup {<<"time", e[1], e[2]>> : e \in TimePeriods}
        \cup {<<"metric", e[1], e[2]>> : e \in Metrics}
        \cup {<<"agg", e[1], e[2]>> : e \in Aggregations}

Answered == served'.n > served.n
Unexpired ==
    cache[served'.key].data # 0 /\ now < cache[served'.key].timestamp + CACHE_TTL
Expired ==
    cache[served'.key].data # 0 /\ now >= cache[served'.key].timestamp + CACHE_TTL

\* C18 as stated: a request made at or after t + CACHE_TTL for a key stored
\* at t, when it does not end in an error, queries the backend again and
\* replaces the entry.
C18_ExpiredReplaced ==
    [][(Answered /\ Expired /\ served'.status = 200)
          => /\ fetched' = fetched + 1
             /\ cache'[served'.key] = [data |-> fetched', timestamp |-> now]]_vars

\* C18, amended: a request for a key whose entry was stored less than
\* CACHE_TTL ago is answered with the stored data, the backend is not
\* queried and the cache stays as it is; any other request queries the
\* backend, and the entry is replaced by the new data and the current time
\* exactly when the response carries data; a request that ends in an error,
\* or a matches request that finds no rows, leaves the cache as it is.
C18_CacheTtl ==
    [][Answered =>
          IF Unexpired
          THEN /\ served'.status = 200 /\ served'.data = cache[served'.key].data
               /\ fetched' = fetched /\ cache' = cache
          ELSE /\ fetched' = fetched + 1
               /\ IF served'.status = 200 /\ served'.data # 0
                  THEN /\ served'.data = fetched'
                       /\ cache' = [cache EXCEPT ![served'.key] =
                                        [data |-> fetched', timestamp |-> now]]
                  ELSE cache' = cache]_vars

\* The statistics stored at 0 were served from the cache at CACHE_TTL - 1
\* and fetched again and replaced at CACHE_TTL.
C18_Witness ==
    /\ served.n = 3 /\ fetched = 2 /\ now = CACHE_TTL
    /\ cache[<<"stats", "all">>] = [data |-> 2, timestamp |-> CACHE_TTL]
    /\ served.key = <<"stats", "all">> /\ served.data = 2

\* The clauses a new WHERE is put in front of.
LaterClauses == {"group by", "order by", "limit"}

\* The season predicate at m stands right after the first WHERE of s.
PlacedAfterWhere(s, m) ==
    m > 2 /\ SubSeq(s, m - 2, m - 1) = <<"WHERE", " ">> /\ Search("where", s) = m - 2

\* The season predicate from m to e stands before every GROUP BY, ORDER BY
\* and LIMIT of s, and directly in front of the first of them, or at the end.
PlacedBeforeClauses(s, m, e) ==
    /\ \A c \in LaterClauses : Search(c, s) = 0 \/ Search(c, s) > m
    /\ SkipWs(s, e + 1) \in {Search(c, s) : c \in LaterClauses} \cup {Len(s) + 1}

\* C21: the conflict step of _clean_sql, given a text with two or more
\* season predicates of two or more distinct values, returns a text with
\* exactly one season predicate, which has the first value of the input and
\* stands right after the first WHERE; when the input has no WHERE, that
\* WHERE is new and stands in front of the earliest of GROUP BY, ORDER BY
\* and LIMIT, or at the end.  Given any other text the step returns it as
\* it is.
C21_ConflictResolved ==
    passes >= 1 =>
        IF Conflicting(SeasonMatches(prev))
        THEN /\ SeasonMatches(text) = <<SeasonMatches(prev)[1]>>
             /\ PlacedAfterWhere(text, Search("season", text))
             /\ Search("where", prev) = 0 =>
                    PlacedBeforeClauses(text, Search("season", text),
                                        SeasonEnd(text, Search("season", text)))
        ELSE text = prev

\* An AND of s at i with nothing to join: the next token that is not
\* whitespace, at n, is the end, the terminator, another AND or the start of
\* GROUP BY, ORDER BY or LIMIT.
DanglingAt(s, i, n) ==
    /\ Upper(s[i]) = "AND"
    /\ n > Len(s) \/ s[n] = ";" \/ Upper(s[n]) \in {"AND", "GROUP", "ORDER", "LIMIT"}

Dangling(s) ==
    \/ Search("where_and", s) > 0
    \/ \E i \in 1..Len(s) : DanglingAt(s, i, SkipWs(s, i + 1))

\* C22: after the conflict step of _clean_sql has resolved a conflict, the
\* text has no AND without an operand, no WHERE AND, and no AND directly
\* before GROUP BY, ORDER BY, LIMIT, the terminator or the end.
C22_NoDanglingAnd == (passes >= 1 /\ Conflicting(SeasonMatches(prev))) => ~Dangling(text)

\* The statement the handler passed to the executor.
Sent == forwarded[Len(forwarded)]

\* C23: when the statement posted to /execute has two or more season
\* predicates of two or more distinct values, the statement passed to the
\* executor has exactly one season predicate, with the first value, and
\* still has the other predicates.
C23_FirstSeasonKept ==
    (xpc = "done" /\ forwarded # <<>> /\ Conflicting(SeasonMatches(xsql)))
        => /\ SeasonMatches(Sent) = <<SeasonMatches(xsql)[1]>>
           /\ Count(Sent, ">") = Count(xsql, ">")

\* C29: the answer "conflicting season conditions" is given only when the
\* statement passed to the executor has two or more season predicates of
\* different values.
C29_ConflictReported ==
    (xpc = "done" /\ xdetail = "conflicting seasons") => Conflicting(SeasonMatches(Sent))

\* DROP, DELETE, TRUNCATE, INSERT, UPDATE, CREATE, ALTER as a word of s.
DangerousKeywords == {"DROP", "DELETE", "TRUNCATE", "INSERT", "UPDATE", "CREATE", "ALTER"}
HasDangerous(s) == \E i \in 1..Len(s) : Upper(s[i]) \in DangerousKeywords

\* C30: a statement passed to the executor is one SELECT statement: it has
\* no semicolon with a statement after it, and none of the operations that
\* /validate calls dangerous.
C30_SingleSelect ==
    \A i \in 1..Len(forwarded) :
        /\ StartsWithSelect(forwarded[i])
        /\ Count(forwarded[i], ";") = 0
        /\ ~HasDangerous(forwarded[i])

\* Where GROUP BY, ORDER BY and LIMIT start in s.
ClauseStarts(s) == {Search(c, s) : c \in LaterClauses} \ {0}

\* s has at w a WHERE clause that is the predicate season = 'v' alone, in
\* front of every GROUP BY, ORDER BY and LIMIT and directly in front of the
\* first of them, or of the terminator when there is none.
NewWhereFirst(s, v, w) ==
    /\ w > 0 /\ w + 8 <= Len(s)
    /\ SubSeq(s, w, w + 8) = <<"WHERE", " ">> \o SeasonClause(v)
    /\ \A p \in ClauseStarts(s) : p > w
    /\ SkipWs(s, w + 9) \in ClauseStarts(s) \cup {Len(s)}

\* C24: process_query adds a season filter exactly when the requested season
\* does not occur in the cleaned SQL.  When that SQL has no WHERE, the new
\* clause WHERE season = '<requested>' stands in front of whichever of
\* GROUP BY, ORDER BY and LIMIT comes first in the statement, or in front of
\* the terminator; when it has a WHERE, the predicate is the first one of
\* that WHERE.
C24_FilterInjected ==
    QueryRepaired =>
        IF Contains(CleanSql(raw), <<season>>)
        THEN sql = ValidateSeasonUsage(CleanSql(raw), season)
        ELSE IF Search("where", CleanSql(raw)) = 0
        THEN NewWhereFirst(sql, season, Search("where", sql))
        ELSE /\ Search("season", sql) = Search("where", sql) + 2
             /\ SeasonMatches(sql)[1] = <<season>>

\* C25: the SQL process_query returns has no WHERE after a GROUP BY.
C25_ClauseOrder == QueryRepaired => ~WhereAfterGroup(sql)

\* C26: when the text given to _clean_sql ends with a column name cut off at
\* _sco, the result is that text with the cut token completed (and the
\* terminator), every complete away_score as it was; when the text does not
\* end with _sco, no column name is changed.
C26_OnlyTruncatedRestored ==
    passes >= 1 =>
        IF EndsWith(prev, <<"_sco">>)
        THEN text = prev \o <<"re", ";">>
        ELSE Count(text, "re") = Count(prev, "re") /\ Count(text, "_sco") = Count(prev, "_sco")

\* s ends with its terminator, and what stands in front of the terminator
\* ends with = or with AND.
DanglingTailAt(s, body) ==
    /\ EndsWith(s, <<";">>) /\ Len(body) > 0
    /\ body[Len(body)] = "=" \/ Upper(body[Len(body)]) = "AND"

DanglingTail(s) == DanglingTailAt(s, RStrip(Upto(s, Len(s) - 1)))

\* C27: whenever the text _clean_sql returns ends, in front of its
\* terminator, with a dangling = or AND, or does not begin with SELECT, or
\* has unbalanced parentheses, the validation step inside _clean_sql has
\* reported a failure, whether or not the input had a terminator.
C27_ValidationFlags ==
    (passes >= 1
     /\ (DanglingTail(text) \/ ~StartsWithSelect(text) \/ Count(text, "(") # Count(text, ")")))
        => ~ValidateSql(CleanSqlValidated(prev))

\* s has none of the patterns _clean_sql repairs: no fence, balanced
\* parentheses, no _sco at the end, at most one distinct season value, no
\* WHERE after GROUP BY.
NoTarget(s) ==
    /\ ~Contains(s, <<Fence>>)
    /\ Count(s, "(") = Count(s, ")")
    /\ ~EndsWith(SplitJoin(s), <<"_sco">>)
    /\ Cardinality(Range(SeasonMatches(s))) <= 1
    /\ ~WhereAfterGroup(s)

\* s with a terminator, its own if it has one.
Terminated(s) == IF EndsWith(s, <<";">>) THEN s ELSE s \o <<";">>

\* C28: for a text with none of the patterns it repairs, _clean_sql returns
\* the text with its whitespace runs collapsed to single spaces and a
\* terminator, and nothing else changed; and a canned fallback query leaves
\* the repair steps of process_query as itself with collapsed whitespace and
\* a terminator, its one season predicate having the requested season.
C28_NoTargetNoChange ==
    /\ (passes >= 1 /\ NoTarget(prev)) => text = Terminated(SplitJoin(prev))
    /\ generr # "none" =>
          /\ sql = SplitJoin(raw) \o <<";">>
          /\ SeasonMatches(sql) = <<<<season>>>>

\* _clean_sql was given the canned league query for Spain, three lines with
\* indentation, and returned it on one line with a terminator.
C28_Witness ==
    /\ passes = 1 /\ prev = LeagueSql(Season1, "Spain")
    /\ Contains(prev, <<"\n", Indent>>) /\ ~Contains(text, <<"\n">>)
    /\ text = SplitJoin(prev) \o <<";">>

====
